---- MODULE Spec2Model ----
(***************************************************************************)
(* Model of the go-http-client module: FetchData (client.go) called with   *)
(* an HTTPClient, either the test double mockHTTPClient (client_test.go)   *)
(* or the DefaultClient built by the command-line wrapper (main).          *)
(*                                                                         *)
(* FetchData is modelled statement by statement; pc is its position.       *)
(* A response body is a once-consumable stream: its data, how much of it   *)
(* was delivered, whether and where a Read fails, how often it was closed. *)
(***************************************************************************)
EXTENDS Integers, Sequences, FiniteSets, TLC

VARIABLES client, caller, pc, calls, resp, err, deferred, b, rerr, ret,
          trace, getArgs, results, stdout, stderr, exitCode

vars == <<client, caller, pc, calls, resp, err, deferred, b, rerr, ret,
          trace, getArgs, results, stdout, stderr, exitCode>>

(* ------------------------------ bounds --------------------------------- *)
MaxLen == 2      \* longest response body
MaxChunk == 2    \* most bytes one Read delivers
MaxCalls == 2    \* FetchData invocations made by one test against one mock

(* ----------------------------- constants ------------------------------- *)
Endpoint == "https://jsonplaceholder.typicode.com/posts"
ReadmeUrl == "http://example.com/cities/Bangalore"
StatusOK == 200

ByteVals == {0, 255}
Statuses == {200, 204, 404, 503}
TransportCauses == {"connection refused", "timeout"}
ReadCauses == {"read error"}
EOF == "EOF"
\* What a Read of an http response body returns once the body was closed.
ErrBodyClosed == "http: read on closed response body"
NoCause == ""

BoundedSeq(S, n) == UNION {[1..k -> S] : k \in 0..n}
Bodies == BoundedSeq(ByteVals, MaxLen)
Min(x, y) == IF x < y THEN x ELSE y

(* --------------------------- responses --------------------------------- *)
\* *http.Response: StatusCode and Body. Body is the stream: data is what the
\* peer sends, pos how many bytes Read has delivered, fails/failAt/failCause
\* the Read failure (after failAt bytes), closeErr what Close returns,
\* closed how many times Close was called.
NoResp == [present |-> FALSE, status |-> 0, data |-> <<>>, pos |-> 0,
           fails |-> FALSE, failAt |-> 0, failCause |-> NoCause,
           closeErr |-> FALSE, closed |-> 0]

NewResp(status, data, fails, failAt, failCause, closeErr) ==
    [present |-> TRUE, status |-> status, data |-> data, pos |-> 0,
     fails |-> fails, failAt |-> failAt, failCause |-> failCause,
     closeErr |-> closeErr, closed |-> 0]

Responses ==
    {NewResp(s, d, FALSE, 0, NoCause, ce) :
        s \in Statuses, d \in Bodies, ce \in BOOLEAN}
    \cup
    UNION {{NewResp(s, d, TRUE, k, c, ce) :
              s \in Statuses, k \in 0..Len(d), c \in ReadCauses, ce \in BOOLEAN}
           : d \in Bodies}

\* What a Get returns: (resp, err).
Outcome(r, e) == [resp |-> r, err |-> e]

\* http.Client.Get with the zero http.Client: a response or an error, never both.
NetworkOutcomes ==
    {Outcome(r, NoCause) : r \in Responses}
    \cup {Outcome(NoResp, c) : c \in TransportCauses}

\* A test double returns whatever its function returns: a response, an error,
\* or an error together with a response.
MockOutcomes ==
    NetworkOutcomes
    \cup {Outcome(r, c) : r \in {x \in Responses : x.data = <<>> /\ ~x.fails},
                          c \in TransportCauses}

(* ----------------------------- clients --------------------------------- *)
MockClient(o) == [kind |-> "mock", canned |-> o]
NewDefaultClient == [kind |-> "default", canned |-> Outcome(NoResp, NoCause)]

\* mockHTTPClient.Get: a fresh copy of the canned result on every call.
MockGet(c, url) == {c.canned}
\* DefaultClient.Get: delegates to http.Client.Get.
DefaultGet(c, url) == NetworkOutcomes

ClientGet(c, url) ==
    IF c.kind = "mock" THEN MockGet(c, url) ELSE DefaultGet(c, url)

(* ------------------------------ errors --------------------------------- *)
\* An error value: nil, or a message (a sequence of text pieces) and the
\* error it wraps (%w), if any.
NilErr == [isNil |-> TRUE, msg |-> <<>>, unwrap |-> NoCause]
NewErr(msg, cause) == [isNil |-> FALSE, msg |-> msg, unwrap |-> cause]

\* A []byte result: nil, or a slice (possibly of length 0).
NilBytes == [isNil |-> TRUE, data |-> <<>>]
Slice(d) == [isNil |-> FALSE, data |-> d]

\* %d: the decimal digits of a non-negative int, most significant first.
DigitChars == <<"0", "1", "2", "3", "4", "5", "6", "7", "8", "9">>
RECURSIVE Itoa(_)
Itoa(n) ==
    IF n < 10 THEN <<DigitChars[n + 1]>>
    ELSE Itoa(n \div 10) \o <<DigitChars[(n % 10) + 1]>>

\* fmt.Errorf("failed to fetch data: %w", err)
FetchErr(cause) == NewErr(<<"failed to fetch data: ", cause>>, cause)

\* fmt.Errorf("unexpected status code: %d", resp.StatusCode)
StatusErr_LastDigitDropped(code) ==
    NewErr(<<"unexpected status code: ">> \o Itoa(code \div 10), NoCause)
StatusErr(code) ==
    NewErr(<<"unexpected status code: ">> \o Itoa(code), NoCause)

\* fmt.Errorf("failed to read response body: %w", err)
ReadErr(cause) == NewErr(<<"failed to read response body: ", cause>>, cause)

\* The (bytes, error) pairs of FetchData's four return statements.
Ret(bytes, e) == [bytes |-> bytes, err |-> e]
NoRet == Ret(NilBytes, NilErr)

RetFetchFailed(cause) == Ret(NilBytes, FetchErr(cause))

RetBadStatus(code) == Ret(NilBytes, StatusErr(code))

RetReadFailed_KeepsPartial(body, cause) == Ret(Slice(body), ReadErr(cause))
RetReadFailed(body, cause) == Ret(NilBytes, ReadErr(cause))

RetBody_NilWhenEmpty(body) ==
    IF body = <<>> THEN Ret(NilBytes, NilErr) ELSE Ret(Slice(body), NilErr)
RetBody(body) == Ret(Slice(body), NilErr)

\* resp.StatusCode != http.StatusOK
BadStatus_Only4xx5xx(code) == code >= 400
BadStatus(code) == code # StatusOK

(* --------------------------- body stream ------------------------------- *)
\* Where the stream stops delivering: at the failure point, else at its end.
StreamLimit(s) == IF s.fails THEN s.failAt ELSE Len(s.data)
\* The error the stream ends with.
StreamEnd(s) == IF s.fails THEN s.failCause ELSE EOF

\* Body.Read(p): the possible (n, err) results and the bytes delivered.
\* A Reader may deliver n > 0 bytes with a nil error, or deliver its last
\* bytes together with the final error; at the limit it returns (0, err).
ReadResult(n, chunk, e) == [n |-> n, chunk |-> chunk, err |-> e]
StreamRead(s) ==
    IF s.closed > 0 THEN {ReadResult(0, <<>>, ErrBodyClosed)}
    ELSE IF s.pos = StreamLimit(s) THEN {ReadResult(0, <<>>, StreamEnd(s))}
    ELSE LET most == Min(MaxChunk, StreamLimit(s) - s.pos)
         IN  {ReadResult(n, SubSeq(s.data, s.pos + 1, s.pos + n), NoCause) :
                 n \in 1..most}
             \cup
             {ReadResult(n, SubSeq(s.data, s.pos + 1, s.pos + n), StreamEnd(s)) :
                 n \in {k \in 1..most : s.pos + k = StreamLimit(s)}}

\* io.ReadAll: b = b[:len(b)+n] after each Read.
Grow_Overwrites(buf, chunk) == chunk
Grow(buf, chunk) == buf \o chunk

\* io.ReadAll: if err == EOF { err = nil }
EofToNil_Keeps(e) == e
EofToNil(e) == IF e = EOF THEN NoCause ELSE e

(* ------------------------- command-line output ------------------------- *)
NotExited == 0 - 1
ExitOk == 0
ExitFatal == 1

\* One fmt.Println: a text or the bytes of string(data), then a newline.
TextLine(t) == [text |-> t, bytes |-> <<>>]
BytesLine(d) == [text |-> "", bytes |-> d]

\* log.Fatalf("Error fetching data: %v", err): the line written to stderr.
FatalLine(e) == <<"Error fetching data: ">> \o e.msg

\* log.Fatalf ends with os.Exit(1).
FatalExit_Zero == ExitOk
FatalExit == ExitFatal

(* ------------------------------ state ---------------------------------- *)
\* client.Get(Endpoint): the argument.
GetUrl_Readme == ReadmeUrl
GetUrl == Endpoint

Init ==
    /\ caller \in {"test", "main"}
    /\ client \in IF caller = "main" THEN {NewDefaultClient}
                  ELSE {MockClient(o) : o \in MockOutcomes}
    /\ pc = "idle"
    /\ calls = 0
    /\ resp = NoResp
    /\ err = NoCause
    /\ deferred = FALSE
    /\ b = <<>>
    /\ rerr = NoCause
    /\ ret = NoRet
    /\ trace = <<>>
    /\ getArgs = <<>>
    /\ results = <<>>
    /\ stdout = <<>>
    /\ stderr = <<>>
    /\ exitCode = NotExited

\* A test calls FetchData(mockClient).
Call ==
    /\ pc = "idle"
    /\ caller = "test"
    /\ calls < MaxCalls
    /\ pc' = "get"
    /\ UNCHANGED <<client, caller, calls, resp, err, deferred, b, rerr, ret,
                   trace, getArgs, results, stdout, stderr, exitCode>>

\* main calls FetchData(httpClient) with the default client.
MainStart ==
    /\ pc = "idle"
    /\ caller = "main"
    /\ calls = 0
    /\ pc' = "get"
    /\ calls' = 1
    /\ UNCHANGED <<client, caller, resp, err, deferred, b, rerr, ret,
                   trace, getArgs, results, stdout, stderr, exitCode>>

\* resp, err := client.Get(Endpoint)
Get ==
    /\ pc = "get"
    /\ \E o \in ClientGet(client, GetUrl) :
          /\ resp' = o.resp
          /\ err' = o.err
    /\ getArgs' = Append(getArgs, GetUrl)
    /\ trace' = Append(trace, "get")
    /\ pc' = "geterr"
    /\ UNCHANGED <<client, caller, calls, deferred, b, rerr, ret, results,
                   stdout, stderr, exitCode>>

\* if err != nil { return nil, fmt.Errorf("failed to fetch data: %w", err) }
GetFailed_DefersClose ==
    /\ pc = "geterr"
    /\ err # NoCause
    /\ ret' = RetFetchFailed(err)
    /\ deferred' = resp.present
    /\ pc' = "defers"
    /\ UNCHANGED <<client, caller, calls, resp, err, b, rerr, trace,
                   getArgs, results, stdout, stderr, exitCode>>
GetFailed ==
    /\ pc = "geterr"
    /\ err # NoCause
    /\ ret' = RetFetchFailed(err)
    /\ pc' = "defers"
    /\ UNCHANGED <<client, caller, calls, resp, err, deferred, b, rerr, trace,
                   getArgs, results, stdout, stderr, exitCode>>

\* defer resp.Body.Close()
DeferClose ==
    /\ pc = "geterr"
    /\ err = NoCause
    /\ deferred' = TRUE
    /\ pc' = "check"
    /\ UNCHANGED <<client, caller, calls, resp, err, b, rerr, ret, trace,
                   getArgs, results, stdout, stderr, exitCode>>

\* if resp.StatusCode != http.StatusOK { return nil, fmt.Errorf(...) }
CheckStatus ==
    /\ pc = "check"
    /\ trace' = Append(trace, "check")
    /\ IF BadStatus(resp.status)
       THEN /\ ret' = RetBadStatus(resp.status)
            /\ pc' = "defers"
       ELSE /\ ret' = ret
            /\ pc' = "read"
    /\ UNCHANGED <<client, caller, calls, resp, err, deferred, b, rerr,
                   getArgs, results, stdout, stderr, exitCode>>

\* body, err := io.ReadAll(resp.Body): one iteration of its Read loop.
ReadAllStep ==
    /\ pc = "read"
    /\ \E r \in StreamRead(resp) :
          /\ resp' = [resp EXCEPT !.pos = @ + r.n]
          /\ b' = Grow(b, r.chunk)
          /\ IF r.err # NoCause
             THEN /\ rerr' = EofToNil(r.err)
                  /\ pc' = "readerr"
             ELSE /\ rerr' = rerr
                  /\ pc' = "read"
    /\ trace' = Append(trace, "read")
    /\ UNCHANGED <<client, caller, calls, err, deferred, ret, getArgs,
                   results, stdout, stderr, exitCode>>

\* if err != nil { return nil, fmt.Errorf("failed to read response body: %w", err) }
ReadFailed ==
    /\ pc = "readerr"
    /\ rerr # NoCause
    /\ ret' = RetReadFailed(b, rerr)
    /\ pc' = "defers"
    /\ UNCHANGED <<client, caller, calls, resp, err, deferred, b, rerr, trace,
                   getArgs, results, stdout, stderr, exitCode>>

\* return body, nil
ReturnBody ==
    /\ pc = "readerr"
    /\ rerr = NoCause
    /\ ret' = RetBody(b)
    /\ pc' = "defers"
    /\ UNCHANGED <<client, caller, calls, resp, err, deferred, b, rerr, trace,
                   getArgs, results, stdout, stderr, exitCode>>

\* resp.Body.Close(): the error it returns, if any.
CloseCause == "close error"
CloseResult(s) == IF s.closeErr THEN CloseCause ELSE NoCause

\* defer resp.Body.Close(): the deferred call's result is dropped, and
\* FetchData's results are unnamed, so what the return statement set stands.
AfterDeferred_ReportsCloseErr(r, closeResult) ==
    IF closeResult # NoCause /\ r.err.isNil
    THEN Ret(NilBytes, NewErr(<<"failed to close response body: ", closeResult>>,
                              closeResult))
    ELSE r
AfterDeferred(r, closeResult) == r

\* The deferred resp.Body.Close() runs after the return statement has set the
\* results and before FetchData returns to its caller; what Close returns is
\* dropped.
RunDeferred_OnlyOnSuccess ==
    /\ pc = "defers"
    /\ IF deferred /\ ret.err.isNil
       THEN /\ resp' = [resp EXCEPT !.closed = @ + 1]
            /\ trace' = Append(trace, "close")
            /\ ret' = AfterDeferred(ret, CloseResult(resp))
       ELSE /\ resp' = resp
            /\ trace' = trace
            /\ ret' = ret
    /\ deferred' = FALSE
    /\ pc' = "returned"
    /\ UNCHANGED <<client, caller, calls, err, b, rerr, getArgs,
                   results, stdout, stderr, exitCode>>
RunDeferred ==
    /\ pc = "defers"
    /\ IF deferred
       THEN /\ resp' = [resp EXCEPT !.closed = @ + 1]
            /\ trace' = Append(trace, "close")
            /\ ret' = AfterDeferred(ret, CloseResult(resp))
       ELSE /\ resp' = resp
            /\ trace' = trace
            /\ ret' = ret
    /\ deferred' = FALSE
    /\ pc' = "returned"
    /\ UNCHANGED <<client, caller, calls, err, b, rerr, getArgs,
                   results, stdout, stderr, exitCode>>

\* got, err := FetchData(mockClient): the test has the result; the locals of
\* the finished call are gone.
TestReceive ==
    /\ pc = "returned"
    /\ caller = "test"
    /\ results' = Append(results, ret)
    /\ calls' = calls + 1
    /\ pc' = "idle"
    /\ resp' = NoResp
    /\ err' = NoCause
    /\ b' = <<>>
    /\ rerr' = NoCause
    /\ ret' = NoRet
    /\ trace' = <<>>
    /\ getArgs' = <<>>
    /\ UNCHANGED <<client, caller, deferred, stdout, stderr, exitCode>>

\* main: if err != nil { log.Fatalf("Error fetching data: %v", err) }
MainFatal ==
    /\ pc = "returned"
    /\ caller = "main"
    /\ ~ret.err.isNil
    /\ stderr' = Append(stderr, FatalLine(ret.err))
    /\ exitCode' = FatalExit
    /\ pc' = "exited"
    /\ UNCHANGED <<client, caller, calls, resp, err, deferred, b, rerr, ret,
                   trace, getArgs, results, stdout>>

\* main: fmt.Println("Successfully fetched data:");
\*       fmt.Println(string(data)); os.Exit(0)
MainPrint ==
    /\ pc = "returned"
    /\ caller = "main"
    /\ ret.err.isNil
    /\ stdout' = stdout \o <<TextLine("Successfully fetched data:"),
                             BytesLine(ret.bytes.data)>>
    /\ exitCode' = ExitOk
    /\ pc' = "exited"
    /\ UNCHANGED <<client, caller, calls, resp, err, deferred, b, rerr, ret,
                   trace, getArgs, results, stderr>>

Next ==
    \/ Call
    \/ MainStart
    \/ Get
    \/ GetFailed
    \/ DeferClose
    \/ CheckStatus
    \/ ReadAllStep
    \/ ReadFailed
    \/ ReturnBody
    \/ RunDeferred
    \/ TestReceive
    \/ MainFatal
    \/ MainPrint

Spec == Init /\ [][Next]_vars

TypeOK ==
    /\ caller \in {"test", "main"}
    /\ pc \in {"idle", "get", "geterr", "check", "read", "readerr", "defers",
               "returned", "exited"}
    /\ calls \in 0..(MaxCalls + 1)
    /\ deferred \in BOOLEAN
    /\ exitCode \in {NotExited, ExitOk, ExitFatal}

(* ======================= properties of FetchData ======================= *)
\* Reading a decimal numeral back (inverse of %d), to state what a message
\* carries.
DigitVal(ch) == CHOOSE d \in 0..9 : DigitChars[d + 1] = ch
IsDigit(ch) == \E d \in 0..9 : DigitChars[d + 1] = ch
RECURSIVE Atoi(_)
Atoi(ds) ==
    IF Len(ds) = 1 THEN DigitVal(ds[1])
    ELSE 10 * Atoi(SubSeq(ds, 1, Len(ds) - 1)) + DigitVal(ds[Len(ds)])

Count(seq, x) == Cardinality({i \in 1..Len(seq) : seq[i] = x})
Returned == pc = "returned"
GetSucceeded == err = NoCause /\ resp.present

\* C1: whenever Get succeeded with a status code other than 200, FetchData
\* returns nil bytes and a non-nil error whose message is "unexpected status
\* code: " followed by the decimal numeral of exactly the observed code, for
\* every body.
C1_BadStatusCarriesCode ==
    (Returned /\ GetSucceeded /\ resp.status # 200) =>
        /\ ret.bytes.isNil
        /\ ~ret.err.isNil
        /\ Len(ret.err.msg) > 1
        /\ Head(ret.err.msg) = "unexpected status code: "
        /\ \A i \in 2..Len(ret.err.msg) : IsDigit(ret.err.msg[i])
        /\ Atoi(Tail(ret.err.msg)) = resp.status

C1_Witness ==
    /\ Returned /\ GetSucceeded
    /\ resp.status = 404
    /\ resp.data # <<>>
    /\ ret.err.msg = <<"unexpected status code: ", "4", "0", "4">>

\* C2: whenever Get returned an error, FetchData returns nil bytes and a
\* "failed to fetch data: " error whose text contains the cause and which
\* wraps the cause, and the body of whatever response came with the error is
\* neither read nor closed.
C2_TransportFailureLeavesBody ==
    (err # NoCause /\ pc \in {"defers", "returned", "exited"}) =>
        /\ ret.bytes.isNil
        /\ ~ret.err.isNil
        /\ ret.err.msg = <<"failed to fetch data: ", err>>
        /\ ret.err.unwrap = err
        /\ resp.pos = 0
        /\ resp.closed = 0
        /\ ~deferred
        /\ Count(trace, "read") = 0
        /\ Count(trace, "close") = 0

C2_Witness ==
    /\ Returned
    /\ err = "connection refused"
    /\ resp.present
    /\ ret.err.unwrap = "connection refused"
    /\ resp.closed = 0

\* C3: for a status-200 response whose body stream fails, at the first Read
\* or after delivering some bytes, FetchData returns nil bytes and a "failed
\* to read response body: " error wrapping the stream's failure.
C3_ReadFailureDiscardsBytes ==
    (Returned /\ GetSucceeded /\ resp.status = 200 /\ resp.fails) =>
        /\ ret.bytes.isNil
        /\ ret.bytes.data = <<>>
        /\ ~ret.err.isNil
        /\ ret.err.msg = <<"failed to read response body: ", resp.failCause>>
        /\ ret.err.unwrap = resp.failCause

C3_Witness ==
    /\ Returned /\ GetSucceeded
    /\ resp.status = 200
    /\ resp.fails
    /\ resp.failAt > 0
    /\ b # <<>>
    /\ ret.bytes.isNil

\* C4: for a status-200 response whose body stream delivers its bytes without
\* a read error, FetchData returns exactly those bytes, in order, and a nil
\* error, however the stream splits them over Reads.
C4_BodyRoundTrip ==
    (Returned /\ GetSucceeded /\ resp.status = 200 /\ ~resp.fails) =>
        /\ ~ret.bytes.isNil
        /\ Len(ret.bytes.data) = Len(resp.data)
        /\ \A i \in 1..Len(resp.data) : ret.bytes.data[i] = resp.data[i]
        /\ ret.err.isNil

C4_Witness ==
    /\ Returned /\ GetSucceeded
    /\ resp.status = 200
    /\ ~resp.fails
    /\ Len(resp.data) >= 2
    /\ resp.data[1] # resp.data[2]
    /\ Count(trace, "read") >= 3
    /\ ret.bytes.data = resp.data

\* C5: against a test double whose canned response has status 200 and an
\* empty body, every call of FetchData returns a zero-length byte sequence and
\* a nil error, and all calls return the same result.
EmptyOkCanned ==
    /\ client.kind = "mock"
    /\ client.canned.err = NoCause
    /\ client.canned.resp.present
    /\ client.canned.resp.status = 200
    /\ client.canned.resp.data = <<>>
    /\ ~client.canned.resp.fails

C5_EmptyBodyIdempotent ==
    EmptyOkCanned =>
        /\ \A i \in 1..Len(results) :
              /\ results[i].err.isNil
              /\ Len(results[i].bytes.data) = 0
        /\ \A i, j \in 1..Len(results) : results[i] = results[j]
        /\ Returned => (ret.err.isNil /\ Len(ret.bytes.data) = 0)

C5_Witness ==
    /\ EmptyOkCanned
    /\ Len(results) >= 2
    /\ results[1] = results[2]
    /\ results[1].err.isNil

\* C6: on every return of FetchData exactly one of the byte result and the
\* error is non-nil, and a non-empty byte result never comes with a non-nil
\* error.
C6_ExactlyOnePopulated ==
    (pc \in {"defers", "returned", "exited"}) =>
        /\ ret.bytes.isNil # ret.err.isNil
        /\ ~(Len(ret.bytes.data) > 0 /\ ~ret.err.isNil)

C6_Witness ==
    /\ Returned
    /\ ~ret.bytes.isNil
    /\ ret.bytes.data = <<>>
    /\ ret.err.isNil

\* C7: after a successful Get the body stream is never closed more than once,
\* and when FetchData has returned it was closed exactly once, on each of the
\* exit paths (bad status, read failure, success).
C7_ClosedExactlyOnce ==
    /\ resp.closed <= 1
    /\ (GetSucceeded /\ pc \in {"returned", "exited"}) =>
          /\ resp.closed = 1
          /\ Count(trace, "close") = 1
          /\ ~deferred

C7_Witness ==
    /\ Returned /\ GetSucceeded
    /\ resp.status = 200
    /\ rerr # NoCause
    /\ resp.closed = 1

C9_WrapperExit ==
    /\ (exitCode # NotExited) <=> (pc = "exited")
    /\ (pc = "exited") =>
          IF ret.err.isNil
          THEN /\ exitCode = 0
               /\ \E i \in 1..Len(stdout) :
                     /\ stdout[i].text = ""
                     /\ stdout[i].bytes = ret.bytes.data
               /\ stderr = <<>>
          ELSE /\ exitCode # 0
               /\ Len(stderr) = 1
               /\ Len(stderr[1]) = 1 + Len(ret.err.msg)
               /\ \A k \in 1..Len(ret.err.msg) :
                     stderr[1][k + 1] = ret.err.msg[k]
               /\ stdout = <<>>

C9_Witness ==
    /\ pc = "exited"
    /\ caller = "main"
    /\ ret.err.isNil
    /\ ret.bytes.data # <<>>
    /\ exitCode = 0
    /\ Len(stdout) = 2

\* C10: the steps of one invocation occur in the order Get, status check,
\* body reads, close: the body is read only after the status was found to be
\* 200, on any other status it is never read (only closed), and no read
\* follows the close.
StepRank(e) ==
    CASE e = "get" -> 1
      [] e = "check" -> 2
      [] e = "read" -> 3
      [] e = "close" -> 4

C10_StepOrder ==
    /\ \A i, j \in 1..Len(trace) :
          i < j => /\ StepRank(trace[i]) <= StepRank(trace[j])
                   /\ (trace[i] = trace[j] => trace[i] = "read")
    /\ Count(trace, "read") > 0 =>
          /\ Count(trace, "check") = 1
          /\ resp.status = 200
    /\ (resp.present /\ resp.status # 200) =>
          /\ Count(trace, "read") = 0
          /\ resp.pos = 0
    /\ resp.pos > 0 => Count(trace, "read") > 0

C10_Witness ==
    /\ Returned /\ GetSucceeded
    /\ resp.status = 404
    /\ resp.data # <<>>
    /\ trace = <<"get", "check", "close">>

\* C11: when Close of the body reports an error, FetchData returns what it
\* returns when Close succeeds: the bytes read and a nil error on the success
\* path, the status error on a bad status, the read error on a read failure;
\* nothing of the close error is in the result.
C11_CloseErrorDiscarded ==
    (Returned /\ GetSucceeded /\ resp.closeErr /\ resp.closed > 0) =>
        /\ ret.err.unwrap # CloseCause
        /\ \A k \in 1..Len(ret.err.msg) : ret.err.msg[k] # CloseCause
        /\ IF resp.status # 200
           THEN /\ ret.bytes.isNil
                /\ ~ret.err.isNil
                /\ Head(ret.err.msg) = "unexpected status code: "
                /\ ret.err.unwrap = NoCause
           ELSE IF resp.fails
           THEN /\ ret.bytes.isNil
                /\ ~ret.err.isNil
                /\ Head(ret.err.msg) = "failed to read response body: "
                /\ ret.err.unwrap = resp.failCause
           ELSE /\ ~ret.bytes.isNil
                /\ ret.bytes.data = resp.data
                /\ ret.err.isNil

C11_Witness ==
    /\ Returned /\ GetSucceeded
    /\ resp.closeErr
    /\ resp.closed = 1
    /\ resp.status = 200
    /\ ~resp.fails
    /\ resp.data # <<>>
    /\ ret.err.isNil
    /\ ret.bytes.data = resp.data

====
